---- MODULE Spec2Model ----
(***************************************************************************)
(* Model of BetterAutoReplyPlugin (src/main.py): the group message handler *)
(* that gates a message, asks the model backend for a decision, extracts   *)
(* the decision from the completion text and conditionally dispatches a    *)
(* reply request.                                                          *)
(*                                                                         *)
(* Message texts and keywords are sequences of one-character strings.      *)
(* Completion texts are sequences of lexical tokens: the fence marker      *)
(* (three backticks), the word json, whitespace, JSON punctuation and      *)
(* literals.  A JSON-tagged fence is the two adjacent tokens FENCE, TAG.   *)
(***************************************************************************)
EXTENDS Integers, Sequences, FiniteSets, TLC

VARIABLES config, self_enabled, self_trigger_keywords,
          self_decision_prompt_template, runs

vars == <<config, self_enabled, self_trigger_keywords,
          self_decision_prompt_template, runs>>

(***************************************************************************)
(* Bounds                                                                  *)
(***************************************************************************)
MaxTextLen == 2
MaxPad == 1
\* handler runs in flight at once
NumRuns == 2

(***************************************************************************)
(* Python str operations on sequences                                      *)
(***************************************************************************)
WhitespaceChars == {" ", "\n"}

LowerChar(c) == IF c = "A" THEN "a" ELSE IF c = "B" THEN "b" ELSE c

Lower(s) == [i \in 1..Len(s) |-> LowerChar(s[i])]

MatchesAt(s, sub, i) ==
    /\ i + Len(sub) - 1 <= Len(s)
    /\ \A j \in 1..Len(sub) : s[i + j - 1] = sub[j]

\* Python: sub in s
Contains(s, sub) == \E i \in 1..(Len(s) + 1) : MatchesAt(s, sub, i)

\* index of the first occurrence of sub in s, 0 when there is none
Find(s, sub) ==
    IF Contains(s, sub)
    THEN CHOOSE i \in 1..(Len(s) + 1) :
            /\ MatchesAt(s, sub, i)
            /\ \A j \in 1..(i - 1) : ~MatchesAt(s, sub, j)
    ELSE 0

RECURSIVE Split(_, _)
\* Python s.split(sep) for a non-empty separator
Split(s, sep) ==
    LET i == Find(s, sep)
    IN IF i = 0 THEN <<s>>
       ELSE <<SubSeq(s, 1, i - 1)>> \o Split(SubSeq(s, i + Len(sep), Len(s)), sep)

RECURSIVE LStrip(_)
LStrip(s) ==
    IF s # <<>> /\ Head(s) \in WhitespaceChars THEN LStrip(Tail(s)) ELSE s

RECURSIVE RStrip(_)
RStrip(s) ==
    IF s # <<>> /\ s[Len(s)] \in WhitespaceChars
    THEN RStrip(SubSeq(s, 1, Len(s) - 1)) ELSE s

\* Python s.strip()
Strip(s) == RStrip(LStrip(s))

(***************************************************************************)
(* json.loads on token sequences                                           *)
(***************************************************************************)
\* the three-backtick fence marker, written <fence> (a TLA+ string cannot hold a backtick)
FENCE == "<fence>"
TAG == "json"
Q == "\""
Digits == {"0", "1"}

\* A field value as .get returns it: kind and content.  For "str" the
\* content is the characters of the string, for "int" the digits, for
\* "list" and "dict" it is empty exactly when the container is empty.
Field(k, s) == [k |-> k, s |-> s]
Absent == Field("absent", <<>>)
PyFalse == Field("false", <<>>)
NoReasoning == Field("str", <<"NO_REASONING">>)

\* A parsed value: its field form plus, for a dict, the two keys read later.
Val(k, s, sr, rs) == [k |-> k, s |-> s, sr |-> sr, rs |-> rs]
Scalar(k, s) == Val(k, s, Absent, Absent)
AsField(v) == Field(v.k, v.s)

ParseFail == [ok |-> FALSE, v |-> Scalar("none", <<>>), next |-> 0]
ParseOk(v, n) == [ok |-> TRUE, v |-> v, next |-> n]

RECURSIVE SkipWs(_, _)
SkipWs(s, i) ==
    IF i <= Len(s) /\ s[i] \in WhitespaceChars THEN SkipWs(s, i + 1) ELSE i

RECURSIVE DigitsEnd(_, _)
DigitsEnd(s, i) ==
    IF i <= Len(s) /\ s[i] \in Digits THEN DigitsEnd(s, i + 1) ELSE i

RECURSIVE QuoteEnd(_, _)
\* index of the closing quote at or after i, 0 when the string never closes
QuoteEnd(s, i) ==
    IF i > Len(s) THEN 0
    ELSE IF s[i] = Q THEN i ELSE QuoteEnd(s, i + 1)

ParseString(s, i) ==
    LET j == QuoteEnd(s, i + 1)
        body == SubSeq(s, i + 1, j - 1)
    IN IF j = 0 THEN ParseFail
       ELSE IF \E n \in 1..Len(body) : body[n] = "\n" THEN ParseFail
       ELSE ParseOk(Scalar("str", body), j + 1)

ParseNumber(s, i) ==
    LET j == DigitsEnd(s, i)
    IN IF j - i > 1 /\ s[i] = "0" THEN ParseFail
       ELSE ParseOk(Scalar("int", SubSeq(s, i, j - 1)), j)

RECURSIVE ParseValue(_, _)
RECURSIVE ParseElements(_, _)
RECURSIVE ParseMembers(_, _, _, _)

\* elements of a list, i at the first token of an element
ParseElements(s, i) ==
    LET e == ParseValue(s, i)
        j == SkipWs(s, e.next)
    IN IF ~e.ok \/ j > Len(s) THEN ParseFail
       ELSE IF s[j] = "]" THEN ParseOk(Scalar("list", <<"nonempty">>), j + 1)
       ELSE IF s[j] = "," THEN ParseElements(s, SkipWs(s, j + 1))
       ELSE ParseFail

\* members of a dict, i at the first token of a key; sr and rs are the
\* values seen so far for the two keys (a later duplicate key wins)
ParseMembers(s, i, sr, rs) ==
    IF i > Len(s) \/ s[i] # Q THEN ParseFail
    ELSE
    LET key == ParseString(s, i)
        c == IF key.ok THEN SkipWs(s, key.next) ELSE 0
        m == IF key.ok /\ c <= Len(s) /\ s[c] = ":"
             THEN ParseValue(s, SkipWs(s, c + 1)) ELSE ParseFail
        j == SkipWs(s, m.next)
        sr2 == IF key.v.s = <<"should_reply">> THEN AsField(m.v) ELSE sr
        rs2 == IF key.v.s = <<"reasoning">> THEN AsField(m.v) ELSE rs
    IN IF ~m.ok \/ j > Len(s) THEN ParseFail
       ELSE IF s[j] = "}" THEN ParseOk(Val("dict", <<"nonempty">>, sr2, rs2), j + 1)
       ELSE IF s[j] = "," THEN ParseMembers(s, SkipWs(s, j + 1), sr2, rs2)
       ELSE ParseFail

ParseValue(s, i) ==
    IF i > Len(s) THEN ParseFail
    ELSE IF s[i] \in {"true", "false", "null"} THEN ParseOk(Scalar(s[i], <<>>), i + 1)
    ELSE IF s[i] \in Digits THEN ParseNumber(s, i)
    ELSE IF s[i] = Q THEN ParseString(s, i)
    ELSE IF s[i] = "[" THEN
        LET j == SkipWs(s, i + 1)
        IN IF j <= Len(s) /\ s[j] = "]" THEN ParseOk(Scalar("list", <<>>), j + 1)
           ELSE ParseElements(s, j)
    ELSE IF s[i] = "{" THEN
        LET j == SkipWs(s, i + 1)
        IN IF j <= Len(s) /\ s[j] = "}" THEN ParseOk(Scalar("dict", <<>>), j + 1)
           ELSE ParseMembers(s, j, Absent, Absent)
    ELSE ParseFail

\* the value is the whole text but for trailing whitespace
Complete(s, r) == r.ok /\ SkipWs(s, r.next) > Len(s)

LoadsResult(s, r) == IF Complete(s, r) THEN r ELSE ParseFail

LenientResult(s, r) ==
    IF Complete(s, r) THEN r ELSE ParseOk(Scalar("dict", <<>>), Len(s) + 1)

\* a parser that answers the empty object where json.loads raises
JsonLoadsLenient(s) == LenientResult(s, ParseValue(s, SkipWs(s, 1)))

\* json.loads(s): one value with optional surrounding whitespace; ok = FALSE
\* stands for json.JSONDecodeError
JsonLoads(s) == LoadsResult(s, ParseValue(s, SkipWs(s, 1)))

\* a lookup that falls back to the default as soon as either key is missing
DictGetCoupled(v, key, default) ==
    LET f == IF key = "should_reply" THEN v.sr ELSE v.rs
    IN IF v.sr = Absent \/ v.rs = Absent THEN default ELSE f

\* decision.get(key, default) on a dict
DictGet(v, key, default) ==
    LET f == IF key = "should_reply" THEN v.sr ELSE v.rs
    IN IF f = Absent THEN default ELSE f

\* Python truth value of a field value, as `if should_reply:` tests it
Truthy(f) ==
    CASE f.k = "true" -> TRUE
      [] f.k \in {"false", "null", "absent"} -> FALSE
      [] f.k = "int" -> f.s # <<"0">>
      [] OTHER -> f.s # <<>>

(***************************************************************************)
(* Configuration and prompt template                                       *)
(***************************************************************************)
\* DEFAULT_DECISION_PROMPT: literal text around the replacement fields, in
\* the order they occur in the template
DEFAULT_DECISION_PROMPT ==
    <<"text", "{user_message}", "text", "{is_at}", "text", "{history}",
      "text", "{user_message}", "text">>

\* config.get(key, default)
ConfigGet(cfg, key, default) ==
    IF key \in DOMAIN cfg THEN cfg[key] ELSE default

\* str(is_at)
BoolStr(b) == IF b THEN <<"True">> ELSE <<"False">>

\* one part of a template formatted with the keyword arguments of
\* str.format(user_message=..., is_at=..., history=...)
FormatPart(part, user_message, is_at, history) ==
    CASE part = "{user_message}" -> [exc |-> "none", text |-> user_message]
      [] part = "{is_at}" -> [exc |-> "none", text |-> BoolStr(is_at)]
      [] part = "{history}" -> [exc |-> "none", text |-> history]
      [] part = "{0}" -> [exc |-> "IndexError", text |-> <<>>]
      [] part \in {"{mood}", "{reply}"} -> [exc |-> "KeyError", text |-> <<>>]
      [] OTHER -> [exc |-> "none", text |-> <<part>>]

RECURSIVE Format(_, _, _, _)
\* template.format(...): the rendered prompt, or the exception of the first
\* replacement field that has no argument
Format(template, user_message, is_at, history) ==
    IF template = <<>> THEN [exc |-> "none", text |-> <<>>]
    ELSE LET h == FormatPart(Head(template), user_message, is_at, history)
             t == Format(Tail(template), user_message, is_at, history)
         IN IF h.exc # "none" THEN h
            ELSE IF t.exc # "none" THEN t
            ELSE [exc |-> "none", text |-> h.text \o t.text]

(***************************************************************************)
(* Exceptions and the handlers of the two try blocks                       *)
(***************************************************************************)
\* the classes raised in the handler; all derive from Exception
ExceptionClasses ==
    {"KeyError", "IndexError", "AttributeError", "JSONDecodeError", "ProviderError"}

\* an inner handler that takes every exception
InnerCatchesAll(e) == TRUE

\* except (json.JSONDecodeError, IndexError)
InnerCatches(e) == e \in {"JSONDecodeError", "IndexError"}

\* an outer handler that names the backend's error class only
OuterCatchesProviderOnly(e) == e = "ProviderError"

\* except Exception
OuterCatches(e) == e \in ExceptionClasses

ErrorLogs == {"error:llm_failed", "error:parse", "error:unknown"}

(***************************************************************************)
(* Per-message run of group_message_handler                                *)
(***************************************************************************)
Resp(kind, text) == [kind |-> kind, text |-> text]

IdleRun ==
    [pc |-> "idle", message_str |-> <<>>, is_at |-> FALSE,
     config_enabled |-> FALSE, config_keywords |-> <<>>,
     config_template |-> <<>>, message_text |-> <<>>, stopped |-> FALSE,
     logs |-> <<>>, prompt |-> <<>>, llm_calls |-> 0,
     decision_response |-> Resp("unset", <<>>), decision_json_str |-> <<>>,
     has_decision |-> FALSE, should_reply |-> Absent, reasoning |-> Absent,
     requests |-> <<>>, escaped |-> "none"]

Log(run, line) == [run EXCEPT !.logs = Append(@, line)]

\* an exception reaching the outer try block: logged when caught, otherwise
\* it leaves the handler
OuterExcept(run, exc) ==
    IF OuterCatches(exc)
    THEN [Log(run, "error:unknown") EXCEPT !.pc = "done"]
    ELSE [run EXCEPT !.pc = "done", !.escaped = exc]

\* the containment test with its operands exchanged
IsTriggeredReversed(message_text, keywords) ==
    \E n \in 1..Len(keywords) : Contains(Lower(keywords[n]), Lower(message_text))

\* the containment test without lower()
IsTriggeredCaseSensitive(message_text, keywords) ==
    \E n \in 1..Len(keywords) : Contains(message_text, keywords[n])

\* any(keyword.lower() in message_text.lower() for keyword in keywords)
IsTriggeredByKeyword(message_text, keywords) ==
    \E n \in 1..Len(keywords) : Contains(Lower(message_text), Lower(keywords[n]))

\* the flag as it was last stored on the plugin, with no new read of the
\* configuration
ReadEnabledCached(cfg) == self_enabled

\* the setting read under a misspelt key: always the default
ReadEnabledWrongKey(cfg) == ConfigGet(cfg, "enable", TRUE)

\* line 75: self.config.get("enabled", True)
ReadEnabled(cfg) == ConfigGet(cfg, "enabled", TRUE)

\* the gate with the two conditions joined the wrong way
PassesGateBoth(is_at, is_triggered_by_keyword) == is_at /\ is_triggered_by_keyword

\* line 85, negated: the message is taken up
PassesGate(is_at, is_triggered_by_keyword) == is_at \/ is_triggered_by_keyword

\* the message is logged but the event is left to the other handlers
ClaimWithoutStop(run) == Log(run, "info:received")

\* lines 88-91: log the message and stop the propagation of the event
Claim(run) == [Log(run, "info:received") EXCEPT !.stopped = TRUE]

\* lines 76-103: from the enabled test to the await of text_chat; the call
\* get_using_provider().text_chat(prompt) is counted when it is reached
Begin(run, enabled, keywords, template, message_str, is_at) ==
    LET r0 == [run EXCEPT !.message_str = message_str, !.is_at = is_at]
        message_text == Strip(message_str)
        r1 == Claim([r0 EXCEPT !.message_text = message_text])
        fmt == Format(template, message_text, is_at, <<"N/A">>)
    IN IF ~enabled THEN [r0 EXCEPT !.pc = "done"]
       ELSE IF ~PassesGate(is_at, IsTriggeredByKeyword(message_text, keywords))
       THEN [r0 EXCEPT !.pc = "done", !.message_text = message_text]
       ELSE IF fmt.exc # "none" THEN OuterExcept(r1, fmt.exc)
       ELSE [r1 EXCEPT !.prompt = fmt.text, !.llm_calls = @ + 1,
                       !.pc = "awaiting"]

\* p[i] on a Python list, i counted from 0
Item(p, i) ==
    IF i + 1 <= Len(p) THEN [exc |-> "none", v |-> p[i + 1]]
    ELSE [exc |-> "IndexError", v |-> <<>>]

\* the subscript off by one: the text before the first fence marker
UntaggedPayloadFirst(text) == Item(Split(text, <<FENCE>>), 0)

\* a payload that exists only between an opening and a closing marker
UntaggedPayloadClosed(text) ==
    IF Len(Split(text, <<FENCE>>)) >= 3
    THEN Item(Split(text, <<FENCE>>), 1)
    ELSE [exc |-> "IndexError", v |-> <<>>]

\* line 116: decision_json_str.split(FENCE)[1]
UntaggedPayload(text) == Item(Split(text, <<FENCE>>), 1)

\* the text after the last tagged marker instead of the first
TaggedPayloadLast(text) ==
    Item(Split(text, <<FENCE, TAG>>), Len(Split(text, <<FENCE, TAG>>)) - 1)

\* line 114: decision_json_str.split(FENCE + "json")[1]
TaggedPayload(text) == Item(Split(text, <<FENCE, TAG>>), 1)

\* the two tests in the other order: any fence marker selects the untagged
\* branch
ExtractJsonStrUntaggedFirst(text) ==
    IF Contains(text, <<FENCE>>)
    THEN LET a == UntaggedPayload(text)
         IN IF a.exc # "none" THEN a ELSE [exc |-> "none", v |-> Strip(a.v)]
    ELSE [exc |-> "none", v |-> text]

\* lines 113-116: the text handed to json.loads, or the IndexError of a
\* subscript
ExtractJsonStr(text) ==
    IF Contains(text, <<FENCE, TAG>>)
    THEN LET a == TaggedPayload(text)
             b == Item(Split(a.v, <<FENCE>>), 0)
         IN IF a.exc # "none" THEN a
            ELSE IF b.exc # "none" THEN b
            ELSE [exc |-> "none", v |-> Strip(b.v)]
    ELSE IF Contains(text, <<FENCE>>)
    THEN LET a == UntaggedPayload(text)
         IN IF a.exc # "none" THEN a ELSE [exc |-> "none", v |-> Strip(a.v)]
    ELSE [exc |-> "none", v |-> text]

\* lines 118-121: the exception of the inner try block, "none" without one,
\* given the outcome of the extraction and of json.loads; .get on a value
\* that is not a dict raises AttributeError
InnerException(ext, parsed) ==
    IF ext.exc # "none" THEN ext.exc
    ELSE IF ~parsed.ok THEN "JSONDecodeError"
    ELSE IF parsed.v.k # "dict" THEN "AttributeError"
    ELSE "none"

\* lines 118-120: the values read from the parsed object
ReadDecision(exc, str, parsed) ==
    [exc |-> exc, decision_json_str |-> str,
     should_reply |-> IF exc = "none"
                      THEN DictGet(parsed.v, "should_reply", PyFalse) ELSE Absent,
     reasoning |-> IF exc = "none"
                   THEN DictGet(parsed.v, "reasoning", NoReasoning) ELSE Absent]

LoadDecision(ext, str, parsed) ==
    ReadDecision(InnerException(ext, parsed), str, parsed)

\* decision_json_str keeps the completion text when a subscript raised
LoadExtracted(ext, str) == LoadDecision(ext, str, JsonLoads(str))

ParseExtracted(ext, text) ==
    LoadExtracted(ext, IF ext.exc = "none" THEN ext.v ELSE text)

\* lines 110-120: the outcome of the inner try block
ParseDecision(text) == ParseExtracted(ExtractJsonStr(text), text)

\* the dispatch tests the flag stored on the plugin once more
DispatchIfEnabled(run) ==
    LET r1 == Log(Log(Log(run, "info:thinking"), "info:analysis"), "info:intent")
    IN IF Truthy(run.should_reply) /\ self_enabled
       THEN [Log(r1, "info:replying") EXCEPT
                !.requests = Append(@, run.message_text), !.pc = "yielded"]
       ELSE [Log(r1, "info:no_reply") EXCEPT !.pc = "done"]

\* lines 125-136: log the decision and dispatch
Dispatch(run) ==
    LET r1 == Log(Log(Log(run, "info:thinking"), "info:analysis"), "info:intent")
    IN IF Truthy(run.should_reply)
       THEN [Log(r1, "info:replying") EXCEPT
                !.requests = Append(@, run.message_text), !.pc = "yielded"]
       ELSE [Log(r1, "info:no_reply") EXCEPT !.pc = "done"]

\* a missing completion is asked for once more
RequestFailedRetry(run) ==
    IF run.llm_calls < 2
    THEN [Log(run, "error:llm_failed") EXCEPT !.llm_calls = @ + 1]
    ELSE [Log(run, "error:llm_failed") EXCEPT !.pc = "done"]

\* lines 105-107: no usable completion, the run ends
RequestFailed(run) == [Log(run, "error:llm_failed") EXCEPT !.pc = "done"]

\* lines 105-139: the handler after the await, given the awaited result
\* and the outcome d of the inner try block
Resume(run, resp, d) ==
    IF resp.kind = "raise" THEN OuterExcept(run, "ProviderError")
    ELSE IF resp.kind = "none" \/ resp.text = <<>>
    THEN RequestFailed(run)
    ELSE IF d.exc # "none" /\ InnerCatches(d.exc)
    THEN [Log(run, "error:parse") EXCEPT
             !.pc = "done", !.decision_json_str = d.decision_json_str]
    ELSE IF d.exc # "none"
    THEN OuterExcept([run EXCEPT !.decision_json_str = d.decision_json_str], d.exc)
    ELSE Dispatch([run EXCEPT !.decision_json_str = d.decision_json_str,
                              !.has_decision = TRUE,
                              !.should_reply = d.should_reply,
                              !.reasoning = d.reasoning])

\* lines 103-139: from the return of text_chat to the yield or the end;
\* decision_response also records a raised call, as kind "raise"
Continue(run, resp) ==
    Resume([run EXCEPT !.decision_response = resp], resp, ParseDecision(resp.text))

(***************************************************************************)
(* Inputs: configurations, messages and backend results                    *)
(***************************************************************************)
Chars == {"a", "A", "b", " "}

\* event.message_str: every text of at most MaxTextLen characters
MessageTexts == UNION {[1..n -> Chars] : n \in 0..MaxTextLen}

\* values of the trigger_keywords setting; the last list holds the empty
\* keyword
KeywordLists ==
    { <<>>,
      << <<"a">> >>,
      << <<"A", "b">> >>,
      << <<"b", "b">>, <<"a", " ">> >>,
      << <<>> >> }

\* values of the decision_making_prompt setting
Templates ==
    { DEFAULT_DECISION_PROMPT,
      <<"text", "{user_message}", "{mood}">>,
      <<"text", "{0}", "{user_message}">>,
      <<"text">> }

MakeConfig(enabled, keywords, template) ==
    [enabled |-> enabled, trigger_keywords |-> keywords,
     decision_making_prompt |-> template]

\* the host's configuration object, with or without the plugin's keys
EmptyConfig == [k \in {} |-> TRUE]

Configs ==
    {EmptyConfig} \cup
    {MakeConfig(e, k, t) : e \in BOOLEAN, k \in KeywordLists, t \in Templates}

\* a JSON value written out as tokens
ValText(f) ==
    CASE f.k = "str" -> <<Q>> \o f.s \o <<Q>>
      [] f.k = "int" -> f.s
      [] f.k = "list" -> IF f.s = <<>> THEN <<"[", "]">> ELSE <<"[", "0", "]">>
      [] f.k = "dict" -> <<"{", "}">>
      [] OTHER -> <<f.k>>

Member(key, f) == <<Q, key, Q, ":", " ">> \o ValText(f)

\* the object with the given should_reply and reasoning members; Absent
\* leaves the member out
ObjText(sr, rs) ==
    <<"{">>
    \o (IF sr = Absent THEN <<>> ELSE Member("should_reply", sr))
    \o (IF sr = Absent \/ rs = Absent THEN <<>> ELSE <<",", " ">>)
    \o (IF rs = Absent THEN <<>> ELSE Member("reasoning", rs))
    \o <<"}">>

PyTrue == Field("true", <<>>)
Str(s) == Field("str", s)

\* should_reply members the backend may write
ShouldReplyValues ==
    { Absent, PyTrue, PyFalse, Field("null", <<>>), Str(<<"false">>), Str(<<>>),
      Field("int", <<"1">>), Field("int", <<"0">>),
      Field("list", <<>>), Field("list", <<"nonempty">>) }

\* reasoning texts without and with a fence marker inside the string
PlainReasonings == { <<"x">>, <<"x", " ", "true">>, <<>> }
FencedReasonings == { <<FENCE, "{", "}", FENCE>> }

ReasoningValues ==
    {Absent} \cup {Str(c) : c \in PlainReasonings \cup FencedReasonings}

\* whitespace around the payload of a fenced block
Pads == UNION {[1..n -> WhitespaceChars] : n \in 0..MaxPad}

Tagged(j, p1, p2) == <<FENCE, TAG>> \o p1 \o j \o p2 \o <<FENCE>>
Untagged(j, p1, p2) == <<FENCE>> \o p1 \o j \o p2 \o <<FENCE>>

Presentations(j) ==
    {j} \cup {Tagged(j, p1, p2) : p1 \in Pads, p2 \in Pads}
        \cup {Untagged(j, p1, p2) : p1 \in Pads, p2 \in Pads}

ObjectTexts == {ObjText(sr, rs) : sr \in ShouldReplyValues, rs \in ReasoningValues}

YesText == ObjText(PyTrue, Str(<<"x">>))
NoText == ObjText(PyFalse, Str(<<"x">>))

\* completion texts that are not one object in one block
OtherTexts ==
    { <<>>, <<"not", " ", "json", " ", "at", " ", "all">>, <<" ">>,
      <<"[", "]">>, <<"1">>, <<"0", "0">>, <<"null">>, <<Q, "x", Q>>, <<"true">>,
      <<"{", Q, "reasoning", Q, ":", Q, "x", "\n", Q, "}">>,
      <<"{", Q, "should_reply", Q, ":", "true", ",", "}">>,
      <<"{", Q, "should_reply", Q, ":", "false", ",", " ", Q, "should_reply", Q, ":", "true", "}">>,
      <<FENCE, TAG, "\n">> \o YesText,
      <<FENCE, "\n">> \o YesText,
      <<"x", " ", FENCE, TAG, "\n">> \o YesText \o <<"\n", FENCE, " ", "x">>,
      <<"x", FENCE>> \o NoText \o <<FENCE, "x">>,
      Tagged(NoText, <<>>, <<>>) \o <<"\n">> \o Tagged(YesText, <<>>, <<>>),
      Untagged(NoText, <<>>, <<>>) \o <<"\n">> \o Tagged(YesText, <<>>, <<>>),
      Tagged(YesText, <<>>, <<>>) \o Untagged(NoText, <<>>, <<>>),
      <<FENCE, FENCE>>, <<FENCE, TAG, FENCE>>, <<FENCE>> }

\* results of the awaited text_chat call on a few completion texts
CoreResponses ==
    { Resp("none", <<>>), Resp("raise", <<>>) } \cup
    { Resp("text", t) :
        t \in { <<>>, <<"not", " ", "json", " ", "at", " ", "all">>,
                YesText, NoText, Tagged(YesText, <<"\n">>, <<"\n">>),
                Untagged(NoText, <<"\n">>, <<"\n">>),
                ObjText(Absent, Str(<<"x">>)), ObjText(PyTrue, Absent),
                ObjText(Str(<<"false">>), Str(<<"x">>)), <<"[", "]">> } }

\* a fence that is opened and never closed, before a whole or a cut-off
\* object
OpeningMarkers == { <<FENCE, TAG>>, <<FENCE>> }
CutOffText == <<"{", Q, "should_reply", Q, ":", " ", "true", ",">>
Unclosed(j) == {open \o p \o j : open \in OpeningMarkers, p \in Pads}
UnclosedTexts == Unclosed(YesText) \cup Unclosed(NoText) \cup Unclosed(CutOffText)

\* two fenced blocks in one completion, the first holding j1 and the
\* second j2, with chatter before, between and after them
Chatter == { <<>>, <<"\n">>, <<"x", " ">> }
TwoBlocks(first, second) ==
    {c1 \o first \o c2 \o second \o c3 : c1 \in Chatter, c2 \in Chatter, c3 \in Chatter}
TaggedThenUntagged(j1, j2) == TwoBlocks(Tagged(j1, <<>>, <<"\n">>), Untagged(j2, <<"\n">>, <<>>))
UntaggedThenTagged(j1, j2) == TwoBlocks(Untagged(j1, <<>>, <<"\n">>), Tagged(j2, <<"\n">>, <<>>))
TaggedThenTagged(j1, j2) == TwoBlocks(Tagged(j1, <<>>, <<"\n">>), Tagged(j2, <<"\n">>, <<>>))
UntaggedThenUntagged(j1, j2) == TwoBlocks(Untagged(j1, <<>>, <<"\n">>), Untagged(j2, <<"\n">>, <<>>))

\* each pair holds two payloads that lead to different outcomes
BlockPairs ==
    { <<YesText, NoText>>, <<NoText, YesText>>, <<YesText, CutOffText>>,
      <<CutOffText, YesText>> }

TwoBlockTexts ==
    UNION { TaggedThenUntagged(p[1], p[2]) \cup UntaggedThenTagged(p[1], p[2])
            \cup TaggedThenTagged(p[1], p[2]) \cup UntaggedThenUntagged(p[1], p[2]) :
            p \in BlockPairs }

\* valid JSON that is not an object, bare and fenced
NonObjectValues ==
    { <<"[", "]">>, <<"[", "1", "]">>, <<"1">>, <<"null">>, <<Q, "x", Q>>,
      <<"true">>, <<"false">> }
NonObjectTexts == UNION {Presentations(j) : j \in NonObjectValues}

\* results of text_chat on every modelled completion text
AllResponses ==
    { Resp("none", <<>>), Resp("raise", <<>>) } \cup
    { Resp("text", t) :
        t \in OtherTexts \cup UnclosedTexts \cup TwoBlockTexts \cup NonObjectTexts
               \cup UNION {Presentations(j) : j \in ObjectTexts} }

(***************************************************************************)
(* State machine                                                           *)
(***************************************************************************)
\* lines 61-67: the plugin after construction, no message handled yet
InitRuns(configs, ids) ==
    /\ config \in configs
    /\ self_enabled = ConfigGet(config, "enabled", TRUE)
    /\ self_trigger_keywords = ConfigGet(config, "trigger_keywords", <<>>)
    /\ self_decision_prompt_template =
           ConfigGet(config, "decision_making_prompt", DEFAULT_DECISION_PROMPT)
    /\ runs = [r \in ids |-> IdleRun]

\* one handler invocation at a time
InitWith(configs) == InitRuns(configs, {1})

\* the host delivers a group message: the handler runs up to its first
\* suspension point
HandleFrom(r, texts, flags) ==
    \E message_str \in texts, is_at \in flags :
        /\ runs[r].pc = "idle"
        /\ self_enabled' = ReadEnabled(config)
        /\ runs' = [runs EXCEPT ![r] =
                     Begin([runs[r] EXCEPT
                                !.config_enabled = ConfigGet(config, "enabled", TRUE),
                                !.config_keywords =
                                    ConfigGet(config, "trigger_keywords", <<>>),
                                !.config_template =
                                    ConfigGet(config, "decision_making_prompt",
                                              DEFAULT_DECISION_PROMPT)],
                           self_enabled', self_trigger_keywords,
                           self_decision_prompt_template, message_str, is_at)]
        /\ UNCHANGED <<config, self_trigger_keywords, self_decision_prompt_template>>

\* text_chat returns or raises and the handler runs on
ReceiveFrom(r, responses) ==
    \E resp \in responses :
        /\ runs[r].pc = "awaiting"
        /\ runs' = [runs EXCEPT ![r] = Continue(runs[r], resp)]
        /\ UNCHANGED <<config, self_enabled, self_trigger_keywords,
                       self_decision_prompt_template>>

\* the resumed generator dispatches its request a second time
ResumeAfterYieldAgain(r) ==
    /\ runs[r].pc = "yielded"
    /\ runs' = [runs EXCEPT ![r].pc = "done",
                            ![r].requests = Append(@, runs[r].message_text)]
    /\ UNCHANGED <<config, self_enabled, self_trigger_keywords,
                   self_decision_prompt_template>>

\* the host takes the yielded request and resumes the generator, which ends
ResumeAfterYield(r) ==
    /\ runs[r].pc = "yielded"
    /\ runs' = [runs EXCEPT ![r].pc = "done"]
    /\ UNCHANGED <<config, self_enabled, self_trigger_keywords,
                   self_decision_prompt_template>>

\* the finished event is dropped; the next message gets a fresh event
NextEvent(r) ==
    /\ runs[r].pc = "done"
    /\ runs' = [runs EXCEPT ![r] = IdleRun]
    /\ UNCHANGED <<config, self_enabled, self_trigger_keywords,
                   self_decision_prompt_template>>

\* the host changes the enabled setting
SetEnabled ==
    \E b \in BOOLEAN :
        /\ b # ConfigGet(config, "enabled", TRUE)
        /\ config' = [k \in DOMAIN config \cup {"enabled"} |->
                        IF k = "enabled" THEN b ELSE config[k]]
        /\ UNCHANGED <<self_enabled, self_trigger_keywords,
                       self_decision_prompt_template, runs>>

HandleMessage(r) == HandleFrom(r, MessageTexts, BOOLEAN)
ReceiveResponse(r) == ReceiveFrom(r, CoreResponses)

Init == InitWith(Configs)

Next ==
    \/ \E r \in DOMAIN runs : HandleMessage(r)
    \/ \E r \in DOMAIN runs : ReceiveResponse(r)
    \/ \E r \in DOMAIN runs : ResumeAfterYield(r)
    \/ \E r \in DOMAIN runs : NextEvent(r)
    \/ SetEnabled

Spec == Init /\ [][Next]_vars

\* The extractor on every modelled completion text: an enabled plugin with
\* the default configuration handles addressed messages.
ExtractMessage(r) == HandleFrom(r, {<<"a">>, <<" ", "b">>}, {TRUE})
ExtractResponse(r) == ReceiveFrom(r, AllResponses)

InitExtract == InitWith({EmptyConfig})

NextExtract ==
    \/ \E r \in DOMAIN runs : ExtractMessage(r)
    \/ \E r \in DOMAIN runs : ExtractResponse(r)
    \/ \E r \in DOMAIN runs : ResumeAfterYield(r)
    \/ \E r \in DOMAIN runs : NextEvent(r)

SpecExtract == InitExtract /\ [][NextExtract]_vars

(***************************************************************************)
(* Properties                                                              *)
(***************************************************************************)
Started(run) == run.pc # "idle"
Ended(run) == run.pc \in {"yielded", "done"}

\* the keyword list and the template of the configuration
ConfiguredKeywords == ConfigGet(config, "trigger_keywords", <<>>)
ConfiguredTemplate ==
    ConfigGet(config, "decision_making_prompt", DEFAULT_DECISION_PROMPT)

\* some configured keyword occurs in text, both lower-cased
KeywordOccursIn(text) ==
    \E n \in 1..Len(ConfiguredKeywords) :
        Contains(Lower(text), Lower(ConfiguredKeywords[n]))

NoSideEffect(run) ==
    /\ ~run.stopped
    /\ run.llm_calls = 0
    /\ run.requests = <<>>

\* C1: a message handled while the configuration's enabled flag is false
\* produces no log line, leaves the event unstopped, makes no backend call
\* and dispatches no reply request, whatever its text, its addressed flag
\* and the keyword list are.
DisabledDoesNothing ==
    \A r \in DOMAIN runs :
        Started(runs[r]) /\ ~runs[r].config_enabled =>
            /\ runs[r].logs = <<>>
            /\ NoSideEffect(runs[r])
            /\ runs[r].pc = "done"

\* an addressed message containing a configured keyword was handled while
\* the flag was false
DisabledWitness ==
    \E r \in DOMAIN runs :
        /\ runs[r].pc = "done" /\ ~runs[r].config_enabled
        /\ runs[r].is_at /\ KeywordOccursIn(runs[r].message_str)
        /\ runs[r].message_str # <<>> /\ ConfiguredKeywords # <<>>

\* C2: an unaddressed message whose text contains none of the configured
\* keywords (case-insensitive substring test) does not stop the event, does
\* not call the backend and dispatches no reply request.
UnmatchedDoesNothing ==
    \A r \in DOMAIN runs :
        /\ Started(runs[r])
        /\ ~runs[r].is_at
        /\ ~KeywordOccursIn(runs[r].message_str)
        => NoSideEffect(runs[r]) /\ runs[r].pc = "done"

\* an unaddressed, non-empty message without any of the (non-empty list of)
\* keywords went through an enabled handler
UnmatchedWitness ==
    \E r \in DOMAIN runs :
        /\ runs[r].pc = "done" /\ runs[r].config_enabled /\ ~runs[r].is_at
        /\ ConfiguredKeywords # <<>> /\ runs[r].message_str # <<>>
        /\ ~KeywordOccursIn(runs[r].message_str)

\* the replacement fields a template may hold and those format() is given
ReplacementFields ==
    {"{user_message}", "{is_at}", "{history}", "{mood}", "{reply}", "{0}"}
ProvidedFields == {"{user_message}", "{is_at}", "{history}"}

Formattable(template) ==
    \A n \in 1..Len(template) :
        template[n] \in ReplacementFields => template[n] \in ProvidedFields

\* C3 as claimed: an addressed message handled while enabled always
\* reaches the backend call, for every keyword list and every template.
AddressedAlwaysCallsModel ==
    \A r \in DOMAIN runs :
        Started(runs[r]) /\ runs[r].config_enabled /\ runs[r].is_at =>
            runs[r].llm_calls = 1

\* C3 amended: an addressed message handled while enabled reaches the
\* backend call, for every keyword list, when the template names only the
\* fields user_message, is_at and history; with any other field the run
\* stops at prompt construction and never calls the backend.
AddressedCallsModelWhenFormattable ==
    \A r \in DOMAIN runs :
        Started(runs[r]) /\ runs[r].config_enabled /\ runs[r].is_at =>
            /\ Formattable(ConfiguredTemplate) =>
                  runs[r].llm_calls = 1 /\ runs[r].prompt # <<>>
            /\ ~Formattable(ConfiguredTemplate) =>
                  runs[r].llm_calls = 0 /\ runs[r].pc = "done"

\* the addressed message "a" waits for the backend with an empty keyword
\* list configured
AddressedWitness ==
    \E r \in DOMAIN runs :
        /\ runs[r].pc = "awaiting" /\ runs[r].is_at
        /\ runs[r].message_str = <<"a">>
        /\ ConfiguredKeywords = <<>>
        /\ runs[r].llm_calls = 1

\* C4 as claimed: while enabled, the event is stopped exactly when the
\* message is addressed or a keyword occurs in the message text.
GateIffRawTextMatches ==
    \A r \in DOMAIN runs :
        Started(runs[r]) /\ runs[r].config_enabled =>
            (runs[r].stopped <=>
                runs[r].is_at \/ KeywordOccursIn(runs[r].message_str))

\* C4 amended: while enabled, the event is stopped and the run goes on
\* exactly when the message is addressed or a keyword occurs, both
\* lower-cased, in the message text with its leading and trailing
\* whitespace removed.
GateIffStrippedTextMatches ==
    \A r \in DOMAIN runs :
        Started(runs[r]) /\ runs[r].config_enabled =>
            /\ runs[r].stopped <=>
                  runs[r].is_at \/ KeywordOccursIn(Strip(runs[r].message_str))
            /\ runs[r].stopped <=> runs[r].logs # <<>>
            /\ ConfiguredKeywords = <<>> => (runs[r].stopped <=> runs[r].is_at)

\* an unaddressed message was taken up because of a keyword that differs
\* from the text in letter case
GateWitness ==
    \E r \in DOMAIN runs :
        /\ runs[r].stopped /\ ~runs[r].is_at
        /\ KeywordOccursIn(Strip(runs[r].message_str))
        /\ \A n \in 1..Len(ConfiguredKeywords) :
              ~Contains(runs[r].message_str, ConfiguredKeywords[n])

NotJsonText == <<"not", " ", "json", " ", "at", " ", "all">>

HasErrorLog(run) == \E n \in 1..Len(run.logs) : run.logs[n] \in ErrorLogs

\* C5: a run emits 0 or 1 reply requests, and 1 exactly when a Decision was
\* extracted and its should_reply is true; with should_reply false nothing
\* is emitted.
OneReplyIffShouldReplyTrue ==
    \A r \in DOMAIN runs :
        /\ Len(runs[r].requests) <= 1
        /\ Ended(runs[r]) =>
              (Len(runs[r].requests) = 1 <=>
                  runs[r].has_decision /\ runs[r].should_reply = PyTrue)
        /\ runs[r].has_decision /\ runs[r].should_reply = PyFalse =>
              runs[r].requests = <<>>

\* C6: a Decision exists only after a backend call that completed with
\* non-empty completion text, a reply request only if a Decision exists,
\* and a missing or empty response, a raised call or the text
\* "not json at all" end the run without Decision and without request.
DecisionOnlyFromCompletion ==
    \A r \in DOMAIN runs :
        /\ runs[r].has_decision =>
              /\ runs[r].decision_response.kind = "text"
              /\ runs[r].decision_response.text # <<>>
              /\ runs[r].llm_calls = 1
        /\ runs[r].requests # <<>> => runs[r].has_decision
        /\ \/ runs[r].decision_response.kind \in {"none", "raise"}
           \/ /\ runs[r].decision_response.kind = "text"
              /\ runs[r].decision_response.text \in {<<>>, NotJsonText}
           => /\ ~runs[r].has_decision
              /\ runs[r].requests = <<>>
              /\ runs[r].pc = "done"

\* the backend answered "not json at all" and the run ended with the parse
\* error logged
NoDecisionWitness ==
    \E r \in DOMAIN runs :
        /\ runs[r].pc = "done"
        /\ runs[r].decision_response = Resp("text", NotJsonText)
        /\ runs[r].logs = <<"info:received", "error:parse">>
        /\ runs[r].requests = <<>>

\* C7: a run that passes the gate has stopped the event by the time it has
\* logged, built a prompt, called the backend or dispatched anything, and
\* the event stays stopped for as long as the event exists, whatever the
\* outcome of the run.
ClaimedThroughout ==
    /\ [](\A r \in DOMAIN runs :
            \/ runs[r].logs # <<>>
            \/ runs[r].prompt # <<>>
            \/ runs[r].llm_calls > 0
            \/ runs[r].requests # <<>>
            => runs[r].stopped)
    /\ [][\A r \in DOMAIN runs :
            runs[r].stopped /\ runs'[r].pc # "idle" => runs'[r].stopped]_vars

\* a run aborted at prompt construction, before any backend call, holds
\* the event stopped
ClaimedWitness ==
    \E r \in DOMAIN runs :
        /\ runs[r].pc = "done" /\ runs[r].stopped
        /\ ~Formattable(ConfiguredTemplate)
        /\ runs[r].llm_calls = 0
        /\ runs[r].logs = <<"info:received", "error:unknown">>

\* the run met one of the error kinds: a template with a field that is not
\* provided, a raised call, a missing or empty completion, a failed
\* extraction
Failed(run) ==
    \/ ~Formattable(ConfiguredTemplate)
    \/ run.decision_response.kind \in {"none", "raise"}
    \/ /\ run.decision_response.kind = "text"
       /\ run.decision_response.text = <<>> \/ ~run.has_decision

PlainReasoningValues == {Absent} \cup {Str(c) : c \in PlainReasonings}

\* C9: when the extracted text is an object, should_reply is the member's
\* value or false when the member is missing, reasoning is the member's
\* value or the filler when it is missing, each whatever the other member
\* is; without a should_reply member no reply request is dispatched.
MissingFieldsDefault ==
    \A r \in DOMAIN runs :
        \A sr \in ShouldReplyValues, rs \in PlainReasoningValues :
            /\ Ended(runs[r])
            /\ runs[r].decision_response.kind = "text"
            /\ runs[r].decision_json_str = ObjText(sr, rs)
            => /\ runs[r].has_decision
               /\ runs[r].should_reply = (IF sr = Absent THEN PyFalse ELSE sr)
               /\ runs[r].reasoning = (IF rs = Absent THEN NoReasoning ELSE rs)
               /\ sr = Absent => runs[r].requests = <<>>

\* the backend answered an object with a reasoning member only
MissingFieldsWitness ==
    \E r \in DOMAIN runs :
        /\ runs[r].pc = "done"
        /\ runs[r].decision_json_str = ObjText(Absent, Str(<<"x">>))
        /\ runs[r].should_reply = PyFalse
        /\ runs[r].reasoning = Str(<<"x">>)
        /\ runs[r].requests = <<>>

\* the completion text presents the object with should_reply b and
\* reasoning text c raw, in a tagged fence or in an untagged fence, and the
\* run ended with exactly that Decision
YieldsDecision(run, b, c) ==
    /\ Ended(run)
    /\ run.decision_response.kind = "text"
    /\ run.decision_response.text \in Presentations(ObjText(b, Str(c)))
    => /\ run.has_decision
       /\ run.should_reply = b
       /\ run.reasoning = Str(c)

\* C10 as claimed: every well-formed decision object yields its Decision
\* from each of its three presentations.
PresentationsAgree ==
    \A r \in DOMAIN runs :
        \A b \in {PyTrue, PyFalse}, c \in PlainReasonings \cup FencedReasonings :
            YieldsDecision(runs[r], b, c)

\* C10 amended: every well-formed decision object whose text holds no fence
\* marker yields its Decision from each of its three presentations,
\* whatever whitespace surrounds it inside the fence.
PresentationsAgreeWithoutFence ==
    \A r \in DOMAIN runs :
        \A b \in {PyTrue, PyFalse}, c \in PlainReasonings :
            YieldsDecision(runs[r], b, c)

\* the object came in an untagged fence with newlines around it
PresentationsWitness ==
    \E r \in DOMAIN runs :
        /\ Ended(runs[r])
        /\ runs[r].decision_response.text = Untagged(YesText, <<"\n">>, <<"\n">>)
        /\ runs[r].has_decision
        /\ runs[r].should_reply = PyTrue
        /\ runs[r].reasoning = Str(<<"x">>)

(***************************************************************************)
(* The host changes the configuration between messages                     *)
(***************************************************************************)
\* cfg[key] = v on the host's configuration object
ConfigSet(cfg, key, v) ==
    [k \in DOMAIN cfg \cup {key} |-> IF k = key THEN v ELSE cfg[k]]

\* the host assigns a new keyword list to the trigger_keywords setting
SetKeywords ==
    \E k \in KeywordLists :
        /\ k # ConfigGet(config, "trigger_keywords", <<>>)
        /\ config' = ConfigSet(config, "trigger_keywords", k)
        /\ UNCHANGED <<self_enabled, self_trigger_keywords,
                       self_decision_prompt_template, runs>>

\* the host assigns a new template to the decision_making_prompt setting
SetTemplate ==
    \E t \in Templates :
        /\ t # ConfigGet(config, "decision_making_prompt", DEFAULT_DECISION_PROMPT)
        /\ config' = ConfigSet(config, "decision_making_prompt", t)
        /\ UNCHANGED <<self_enabled, self_trigger_keywords,
                       self_decision_prompt_template, runs>>

\* the configuration the plugin is constructed with
ReloadConfig == MakeConfig(TRUE, << <<"a">> >>, DEFAULT_DECISION_PROMPT)

ReloadTexts == { <<"a">>, <<" ", "A">>, <<"b">>, <<"b", "b">> }
ReloadResponses == { Resp("text", YesText), Resp("none", <<>>) }

ReloadMessage(r) == HandleFrom(r, ReloadTexts, BOOLEAN)
ReloadResponse(r) == ReceiveFrom(r, ReloadResponses)

InitReload == InitWith({ReloadConfig})

NextReload ==
    \/ \E r \in DOMAIN runs : ReloadMessage(r)
    \/ \E r \in DOMAIN runs : ReloadResponse(r)
    \/ \E r \in DOMAIN runs : ResumeAfterYield(r)
    \/ \E r \in DOMAIN runs : NextEvent(r)
    \/ SetEnabled
    \/ SetKeywords
    \/ SetTemplate

SpecReload == InitReload /\ [][NextReload]_vars

\* some keyword of the list occurs in text, both lower-cased
OccursIn(keywords, text) ==
    \E n \in 1..Len(keywords) : Contains(Lower(text), Lower(keywords[n]))

\* the run was gated with the flag of the configuration as it was when the
\* message arrived, and with the given keyword list and template
GatedAndRenderedWith(run, keywords, template) ==
    /\ ~run.config_enabled => run.logs = <<>> /\ NoSideEffect(run)
    /\ run.config_enabled =>
          /\ run.stopped <=>
                run.is_at \/ OccursIn(keywords, Strip(run.message_str))
          /\ run.llm_calls = 1 <=> run.stopped /\ Formattable(template)
          /\ run.llm_calls = 1 =>
                run.prompt = Format(template, Strip(run.message_str),
                                    run.is_at, <<"N/A">>).text

\* C11 as claimed: every message is gated and rendered with the enabled
\* flag, the keyword list and the template that the configuration holds
\* when the message is handled.
FreshConfigOnEveryMessage ==
    \A r \in DOMAIN runs :
        Started(runs[r]) =>
            GatedAndRenderedWith(runs[r], runs[r].config_keywords,
                                 runs[r].config_template)

\* C11 amended: only the enabled flag is read from the configuration on
\* every message; the keyword list and the template used for the gate and
\* the prompt are the ones the configuration held when the plugin was
\* constructed, whatever values the host has assigned to those settings
\* since.
OnlyEnabledIsReadFresh ==
    \A r \in DOMAIN runs :
        Started(runs[r]) =>
            GatedAndRenderedWith(runs[r], ReloadConfig.trigger_keywords,
                                 ReloadConfig.decision_making_prompt)

\* after the host replaced the keyword list by one without "a" and the
\* template by one that cannot be formatted, and switched the flag off and
\* on again, the message "a" still passed the gate and its prompt was
\* rendered from the template of construction
ReloadWitness ==
    \E r \in DOMAIN runs :
        /\ runs[r].pc = "awaiting"
        /\ runs[r].config_enabled
        /\ ~runs[r].is_at
        /\ runs[r].message_str = <<"a">>
        /\ runs[r].config_keywords = << <<"A", "b">> >>
        /\ runs[r].config_template = <<"text", "{user_message}", "{mood}">>
        /\ self_enabled

(***************************************************************************)
(* Several messages in flight: the handler runs interleave at the await    *)
(* and at the yield                                                        *)
(***************************************************************************)
ConcTexts == { <<"a">>, <<"b", " ">> }
ConcResponses == { Resp("text", YesText), Resp("text", NoText), Resp("none", <<>>) }

ConcMessage(r) == HandleFrom(r, ConcTexts, BOOLEAN)
ConcResponse(r) == ReceiveFrom(r, ConcResponses)

InitConc == InitRuns({ReloadConfig}, 1..NumRuns)

NextConc ==
    \/ \E r \in DOMAIN runs : ConcMessage(r)
    \/ \E r \in DOMAIN runs : ConcResponse(r)
    \/ \E r \in DOMAIN runs : ResumeAfterYield(r)
    \/ \E r \in DOMAIN runs : NextEvent(r)
    \/ SetEnabled

SpecConc == InitConc /\ [][NextConc]_vars

\* what the run does when no other run exists: a function of its message,
\* of the configuration at its arrival and of its own completion
OutcomeAsAlone(run) ==
    /\ run.stopped <=>
          /\ run.config_enabled
          /\ run.is_at \/ OccursIn(run.config_keywords, Strip(run.message_str))
    /\ run.llm_calls = IF run.stopped THEN 1 ELSE 0
    /\ run.stopped =>
          run.prompt = Format(run.config_template, Strip(run.message_str),
                              run.is_at, <<"N/A">>).text
    /\ ~run.stopped => run.pc = "done"
    /\ Ended(run) =>
          run.requests =
              IF run.stopped /\ run.decision_response = Resp("text", YesText)
              THEN << Strip(run.message_str) >> ELSE <<>>
    /\ ~Ended(run) => run.requests = <<>>

\* C12: with several runs of the handler interleaved at its suspension
\* points, each run stops its event, calls the backend, dispatches a reply
\* and builds its prompts exactly as it would alone: from its own message,
\* the configuration at its arrival and its own completion. A dispatched
\* request carries the run's own message text, and the flag another run
\* stores on the plugin changes nothing.
RunsAreIsolated ==
    \A r \in DOMAIN runs : Started(runs[r]) => OutcomeAsAlone(runs[r])

\* run 1 took up "a" while enabled; while it was suspended the host
\* disabled the plugin and run 2 was handled and stored the false flag;
\* run 1 has replied with its own text
IsolatedWitness ==
    /\ runs[1].pc = "yielded"
    /\ runs[1].requests = << <<"a">> >>
    /\ runs[2].pc = "done"
    /\ runs[2].message_str = <<"b", " ">>
    /\ ~runs[2].config_enabled
    /\ ~self_enabled

(***************************************************************************)
(* Fences that are not closed, several blocks in one completion            *)
(***************************************************************************)
ResponseTextIn(run, texts) ==
    /\ Ended(run)
    /\ run.decision_response.kind = "text"
    /\ run.decision_response.text \in texts

\* the run ended by logging an error and dispatched nothing
FailedWithoutReply(run) ==
    /\ ~run.has_decision
    /\ HasErrorLog(run)
    /\ run.requests = <<>>
    /\ run.pc = "done"

\* the run produced the Decision with the given should_reply and acted on it
DecidedAs(run, b) ==
    /\ run.has_decision
    /\ run.should_reply = b
    /\ ~HasErrorLog(run)
    /\ run.requests = IF b = PyTrue THEN <<run.message_text>> ELSE <<>>

\* C13 as claimed: a completion that opens a fence and never closes it
\* fails the extraction: an error is logged and no reply is dispatched,
\* whatever follows the opening marker.
UnclosedFenceFails ==
    \A r \in DOMAIN runs :
        ResponseTextIn(runs[r], UnclosedTexts) => FailedWithoutReply(runs[r])

\* C13 amended: in a completion that opens a fence and never closes it the
\* payload runs from the opening marker to the end of the text. No missing
\* delimiter is reported: a well-formed decision object after the marker
\* yields its Decision, with a reply request when should_reply is true,
\* and only text that is not valid JSON ends in the parse error log and no
\* reply.
UnclosedFenceRunsToEnd ==
    \A r \in DOMAIN runs :
        /\ ResponseTextIn(runs[r], Unclosed(YesText)) => DecidedAs(runs[r], PyTrue)
        /\ ResponseTextIn(runs[r], Unclosed(NoText)) => DecidedAs(runs[r], PyFalse)
        /\ ResponseTextIn(runs[r], Unclosed(CutOffText)) =>
              /\ FailedWithoutReply(runs[r])
              /\ runs[r].logs = <<"info:received", "error:parse">>

\* an untagged fence was opened before a well-formed object and never
\* closed, and the reply request was dispatched
UnclosedWitness ==
    \E r \in DOMAIN runs :
        /\ runs[r].pc = "yielded"
        /\ runs[r].decision_response.text = <<FENCE, "\n">> \o YesText
        /\ runs[r].requests = <<runs[r].message_text>>

\* the run ended as the payload j alone decides: the Decision of a
\* well-formed object, the parse error of a cut-off one
OutcomeOf(run, j) ==
    /\ j = YesText => DecidedAs(run, PyTrue)
    /\ j = NoText => DecidedAs(run, PyFalse)
    /\ j = CutOffText =>
          FailedWithoutReply(run) /\ run.logs = <<"info:received", "error:parse">>

\* C14: when a completion holds a JSON-tagged block and an untagged block,
\* in either order, the Decision comes from the content of the tagged
\* block, between the first tagged marker and the next fence marker; the
\* untagged block decides nothing.
TaggedBlockWins ==
    \A r \in DOMAIN runs : \A p \in BlockPairs :
        /\ ResponseTextIn(runs[r], TaggedThenUntagged(p[1], p[2])) =>
              OutcomeOf(runs[r], p[1])
        /\ ResponseTextIn(runs[r], UntaggedThenTagged(p[1], p[2])) =>
              OutcomeOf(runs[r], p[2])

\* an untagged block refusing the reply came first, the tagged block after
\* it asked for the reply, and the reply request was dispatched
TaggedBlockWitness ==
    \E r \in DOMAIN runs :
        /\ runs[r].pc = "yielded"
        /\ runs[r].decision_response.text \in UntaggedThenTagged(NoText, YesText)
        /\ runs[r].should_reply = PyTrue
        /\ runs[r].requests = <<runs[r].message_text>>

\* C15 as claimed: of several fenced blocks only the first one in the text
\* is considered, whatever the kinds of the blocks are.
FirstBlockInTextDecides ==
    \A r \in DOMAIN runs : \A p \in BlockPairs :
        ResponseTextIn(runs[r],
                       TaggedThenTagged(p[1], p[2]) \cup TaggedThenUntagged(p[1], p[2])
                       \cup UntaggedThenUntagged(p[1], p[2])
                       \cup UntaggedThenTagged(p[1], p[2])) =>
            OutcomeOf(runs[r], p[1])

\* C15 amended: of several fenced blocks only one is considered: the first
\* JSON-tagged block when the completion holds a tagged marker, otherwise
\* the first untagged block. Blocks after the considered one never
\* decide, and neither does an untagged block before a tagged one.
FirstBlockOfItsKindDecides ==
    \A r \in DOMAIN runs : \A p \in BlockPairs :
        /\ ResponseTextIn(runs[r],
                          TaggedThenTagged(p[1], p[2])
                          \cup TaggedThenUntagged(p[1], p[2])
                          \cup UntaggedThenUntagged(p[1], p[2])) =>
              OutcomeOf(runs[r], p[1])
        /\ ResponseTextIn(runs[r], UntaggedThenTagged(p[1], p[2])) =>
              OutcomeOf(runs[r], p[2])

\* two tagged blocks, the first asking for the reply and the second cut
\* off: the reply request was dispatched
FirstBlockWitness ==
    \E r \in DOMAIN runs :
        /\ runs[r].pc = "yielded"
        /\ runs[r].decision_response.text \in TaggedThenTagged(YesText, CutOffText)
        /\ runs[r].requests = <<runs[r].message_text>>

(***************************************************************************)
(* One backend call per message, and the ends of a run                     *)
(***************************************************************************)
\* the awaited call raised or gave nothing usable, or no Decision could be
\* read from its text
RequestOrExtractionFailed(run) ==
    \/ run.decision_response.kind \in {"none", "raise"}
    \/ /\ run.decision_response.kind = "text"
       /\ run.decision_response.text = <<>> \/ ~run.has_decision

\* C16: the backend is called at most once for a message; the step that
\* meets a failed request or a failed extraction ends the run with that
\* one call made and no reply request, and an ended run does nothing more:
\* no retry, no second call, no reply.
AtMostOneCall ==
    /\ [](\A r \in DOMAIN runs :
            runs[r].llm_calls <= 1 /\ Len(runs[r].requests) <= 1)
    /\ [][\A r \in DOMAIN runs :
            /\ runs[r].pc = "awaiting" /\ runs'[r] # runs[r]
                  /\ RequestOrExtractionFailed(runs'[r]) =>
                  /\ runs'[r].pc = "done"
                  /\ runs'[r].llm_calls = 1
                  /\ runs'[r].requests = <<>>
            /\ runs[r].pc = "done" /\ runs'[r] # runs[r] =>
                  runs'[r] = IdleRun]_vars

\* the call returned nothing; the run ended with the one call made, the
\* failure logged and no reply
OneCallWitness ==
    \E r \in DOMAIN runs :
        /\ runs[r].pc = "done"
        /\ runs[r].decision_response.kind = "none"
        /\ runs[r].llm_calls = 1
        /\ runs[r].logs = <<"info:received", "error:llm_failed">>
        /\ runs[r].requests = <<>>

\* The backend answers every call in the end, and the host runs every
\* generator it started to its end.
Fairness ==
    /\ \A r \in {1} : WF_vars(ReceiveResponse(r))
    /\ \A r \in {1} : WF_vars(ResumeAfterYield(r))

SpecLive == Init /\ [][Next]_vars /\ Fairness

\* the ends of a run
NotTriggered(run) == run.pc = "done" /\ ~run.stopped
Reply(run) == Ended(run) /\ run.requests # <<>>
Silent(run) == run.pc = "done" /\ run.has_decision /\ run.requests = <<>>
ParseFailed(run) ==
    /\ run.pc = "done"
    /\ run.decision_response.kind = "text"
    /\ run.decision_response.text # <<>>
    /\ ~run.has_decision
RequestFailedEnd(run) ==
    /\ run.pc = "done"
    /\ \/ run.decision_response.kind \in {"none", "raise"}
       \/ run.decision_response.kind = "text" /\ run.decision_response.text = <<>>
\* the end of a run whose prompt could not be built: no backend call
PromptFailed(run) ==
    /\ run.pc = "done" /\ run.stopped
    /\ run.llm_calls = 0
    /\ run.decision_response.kind = "unset"

ExactlyOne(flags) == Cardinality({n \in DOMAIN flags : flags[n]}) = 1

\* C17 as claimed, the part a finite run refutes: an ended run is in
\* exactly one of the ends not-triggered, Reply, Silent, ParseFailed and
\* RequestFailed, and if it was triggered it has called the backend.
FiveEnds ==
    \A r \in DOMAIN runs :
        Ended(runs[r]) =>
            /\ ExactlyOne(<<NotTriggered(runs[r]), Reply(runs[r]), Silent(runs[r]),
                            ParseFailed(runs[r]), RequestFailedEnd(runs[r])>>)
            /\ runs[r].stopped => runs[r].llm_calls = 1

\* C17 amended: when the backend answers every call, every run that waits
\* for the backend reaches an end. An ended run is in exactly one of six
\* ends: not-triggered, Reply, Silent, ParseFailed, RequestFailed, and
\* PromptFailed, the end of a triggered run whose template could not be
\* formatted. Every triggered run but a PromptFailed one has called the
\* backend once before its end, and after its end a run stops no event,
\* calls no backend and dispatches no reply.
RunsEndOnce ==
    /\ \A r \in {1} : runs[r].pc = "awaiting" ~> Ended(runs[r])
    /\ [](\A r \in DOMAIN runs :
            Ended(runs[r]) =>
                /\ ExactlyOne(<<NotTriggered(runs[r]), Reply(runs[r]),
                                Silent(runs[r]), ParseFailed(runs[r]),
                                RequestFailedEnd(runs[r]), PromptFailed(runs[r])>>)
                /\ runs[r].stopped /\ ~PromptFailed(runs[r]) =>
                      runs[r].llm_calls = 1)
    /\ [][\A r \in DOMAIN runs :
            Ended(runs[r]) /\ runs'[r].pc # "idle" =>
                /\ runs'[r].stopped = runs[r].stopped
                /\ runs'[r].llm_calls = runs[r].llm_calls
                /\ runs'[r].requests = runs[r].requests]_vars

\* a run called the backend, read a Decision not to reply and ended Silent
RunsEndWitness ==
    \E r \in DOMAIN runs :
        /\ Silent(runs[r])
        /\ runs[r].should_reply = PyFalse
        /\ runs[r].llm_calls = 1
        /\ runs[r].logs = <<"info:received", "info:thinking", "info:analysis",
                            "info:intent", "info:no_reply">>

(***************************************************************************)
(* The values of should_reply, and JSON that is not an object              *)
(***************************************************************************)
\* C18 as claimed: a reply request is dispatched only when should_reply
\* is the boolean true; false, null, a string, a number or a list in its
\* place dispatch nothing.
ReplyOnlyOnBooleanTrue ==
    \A r \in DOMAIN runs :
        /\ runs[r].requests # <<>> => runs[r].should_reply = PyTrue
        /\ Ended(runs[r]) /\ runs[r].has_decision
              /\ runs[r].should_reply \in ShouldReplyValues \ {PyTrue} =>
              runs[r].requests = <<>>

\* C19: a completion whose extracted text is valid JSON but no object (a
\* list, a number, a string, true, false, null) gives no Decision: the run
\* ends with one error log line, written by the outer handler and not by
\* the handler of the extraction step, with no reply request and with no
\* exception leaving the handler.
NonObjectGivesNoDecision ==
    \A r \in DOMAIN runs :
        ResponseTextIn(runs[r], NonObjectTexts) =>
            /\ ~runs[r].has_decision
            /\ runs[r].logs = <<"info:received", "error:unknown">>
            /\ runs[r].requests = <<>>
            /\ runs[r].escaped = "none"
            /\ runs[r].pc = "done"

\* the completion was a list in a tagged block; the run ended with the
\* outer handler's log line
NonObjectWitness ==
    \E r \in DOMAIN runs :
        /\ runs[r].pc = "done"
        /\ runs[r].decision_response.text = Tagged(<<"[", "1", "]">>, <<"\n">>, <<"\n">>)
        /\ runs[r].decision_json_str = <<"[", "1", "]">>
        /\ runs[r].logs = <<"info:received", "error:unknown">>
        /\ runs[r].escaped = "none"

====
